---- MODULE Spec2Model ----
(***************************************************************************)
(* Model of package gpool (src/gpool.go): a fixed-size pool of instances   *)
(* kept in a buffered channel, with an optional constructor (NewFunc) and  *)
(* an optional destructor (CloseFunc) that runs in its own goroutine and   *)
(* is tracked by a sync.WaitGroup.                                         *)
(*                                                                         *)
(* Callers are goroutines that call Get, Put, Close and, on the handle     *)
(* Close returned, Wait.  Every channel operation, every WaitGroup         *)
(* operation and every `go` statement is one atomic step, so that the      *)
(* steps of different callers and of the destruction goroutines            *)
(* interleave as the Go scheduler allows.                                  *)
(*                                                                         *)
(* An instance is an identity 1, 2, ...; Zero is the zero value of T.      *)
(* Callers Put instances they hold (obtained from Get) or instances they   *)
(* made themselves; they do not Put the same instance twice without        *)
(* getting it back in between.  A caller that recovers from a panic goes   *)
(* on calling the pool.                                                    *)
(***************************************************************************)
EXTENDS Integers, Sequences, FiniteSets, TLC

\* ---- bounds of the model ----
MaxCap == 2       \* NewPool is called with size in 0..MaxCap
NumCallers == 2   \* goroutines calling the pool
MaxCalls == 5     \* calls of Get, Put, Close and Wait begun in one behaviour
ResetCalls == 4   \* the same, in a behaviour of the resetting pool
PanicCalls == 4   \* the same, in a behaviour with a panicking destructor

Callers == 1..NumCallers
Zero == 0         \* the zero value of T (var v T)

VARIABLES
    cap,       \* cap(p.c), fixed by NewPool
    hasNew,    \* p.new != nil
    hasClose,  \* p.close != nil
    c,         \* p.c: the channel's buffer, oldest first
    closed,    \* p.c has been closed
    wg,        \* p.wg: the WaitGroup's counter
    tasks,     \* the goroutines started by maybeClose, in the order started
    pc,        \* where each caller is
    ret,       \* where maybeClose returns to, per caller
    arg,       \* maybeClose's parameter v, per caller
    held,      \* the instances each caller holds
    handle,    \* the caller holds the *sync.WaitGroup Close returned
    nextId,    \* the next instance identity to be made
    made,      \* the instances p.new() returned
    log,       \* the pool calls and returns so far, in order
    snap,      \* what close(p.c) found: the store, and the instances in maybeClose
    limit,     \* the number of calls the callers make in this behaviour
    crashed,   \* the program has ended on a panic no goroutine recovered
    dirty,     \* the instances whose content is not the state Reset() leaves
    resets,    \* the Reset() calls so far, in order
    pending    \* per caller: the instance resetPool.Put has reset and not yet passed on

vars == <<cap, hasNew, hasClose, c, closed, wg, tasks, pc, ret, arg, held,
          handle, nextId, made, log, snap>>

config == <<cap, hasNew, hasClose>>

\* what the pool of NewPool, called by callers that leave the instances'
\* content alone and whose functions do not panic, never changes
xvars == <<limit, crashed, dirty, resets, pending>>

allvars == <<vars, xvars>>

\* ---- the log ----
Ev(o, v, h) == [op |-> o, v |-> v, how |-> h]

CallOps == {"Get", "Put", "Close", "Wait"}

RECURSIVE CountCalls(_)
CountCalls(l) ==
    IF l = <<>> THEN 0
    ELSE (IF Head(l).op \in CallOps THEN 1 ELSE 0) + CountCalls(Tail(l))

MayCall == CountCalls(log) < limit

\* ---- channel operations (Go's chan T with a buffer of n) ----
\* (mutant) the send also proceeds when the buffer already holds n values
SendReadyOffByOne(buf, n) == Len(buf) <= n

\* `case p.c <- v` can proceed: room in the buffer.  (No receiver is ever
\* parked on p.c: Get receives in a select with a default, and Close ranges
\* over p.c only after closing it.)
SendReady(buf, n) == Len(buf) < n

\* (mutant) the receive proceeds only on a closed channel
RecvReadyClosedOnly(buf, cl) == cl

\* `case v := <-p.c` can proceed: a buffered value, or the channel is closed.
RecvReady(buf, cl) == Len(buf) > 0 \/ cl

\* the value received: the oldest buffered one, or the zero value of a
\* closed and drained channel
RecvValue(buf) == IF Len(buf) > 0 THEN Head(buf) ELSE Zero

\* (mutant) the receive leaves the value in the buffer
RecvRestKeeps(buf) == buf

\* what the buffer holds after the receive
RecvRest(buf) == IF Len(buf) > 0 THEN Tail(buf) ELSE buf

\* ---- NewPool ----
NewPool(size, nf, cf) ==
    /\ cap = size
    /\ hasNew = nf
    /\ hasClose = cf
    /\ c = <<>>
    /\ closed = FALSE
    /\ wg = 0

Init ==
    /\ \E size \in 0..MaxCap, nf \in BOOLEAN, cf \in BOOLEAN : NewPool(size, nf, cf)
    /\ tasks = <<>>
    /\ pc = [p \in Callers |-> "idle"]
    /\ ret = [p \in Callers |-> "idle"]
    /\ arg = [p \in Callers |-> Zero]
    /\ held = [p \in Callers |-> {}]
    /\ handle = [p \in Callers |-> FALSE]
    /\ nextId = 1
    /\ made = {}
    /\ log = <<>>
    /\ snap = <<>>

\* (mutant) maybeNew returns its named result without assigning it
maybeNewZero(id) == Zero

\* ---- maybeNew ----
\* the value maybeNew returns, id being what p.new() would return
maybeNew(id) == IF hasNew THEN id ELSE Zero

\* (mutant) maybeClose tests p.close == nil
maybeCloseInverted(p, v, after) ==
    IF ~hasClose
    THEN /\ pc' = [pc EXCEPT ![p] = "add"]
         /\ arg' = [arg EXCEPT ![p] = v]
         /\ ret' = [ret EXCEPT ![p] = after]
    ELSE /\ pc' = [pc EXCEPT ![p] = after]
         /\ UNCHANGED <<arg, ret>>

\* ---- maybeClose ----
\* maybeClose(v) called by caller p, which goes on at `after` when it returns
maybeClose(p, v, after) ==
    IF hasClose
    THEN /\ pc' = [pc EXCEPT ![p] = "add"]
         /\ arg' = [arg EXCEPT ![p] = v]
         /\ ret' = [ret EXCEPT ![p] = after]
    ELSE /\ pc' = [pc EXCEPT ![p] = after]
         /\ UNCHANGED <<arg, ret>>

\* (mutant) maybeClose starts the goroutine without p.wg.Add(1)
wgAddMissing(p) ==
    /\ pc[p] = "add"
    /\ pc' = [pc EXCEPT ![p] = "go"]
    /\ UNCHANGED <<config, c, closed, wg, tasks, ret, arg, held, handle, nextId, made, log, snap>>

\* p.wg.Add(1)
wgAdd(p) ==
    /\ pc[p] = "add"
    /\ wg' = wg + 1
    /\ pc' = [pc EXCEPT ![p] = "go"]
    /\ UNCHANGED <<config, c, closed, tasks, ret, arg, held, handle, nextId, made, log, snap>>

\* go func() { ... }(): the goroutine exists, maybeClose returns
goFunc(p) ==
    /\ pc[p] = "go"
    /\ tasks' = Append(tasks, [v |-> arg[p], st |-> "ready"])
    /\ pc' = [pc EXCEPT ![p] = ret[p]]
    /\ UNCHANGED <<config, c, closed, wg, ret, arg, held, handle, nextId, made, log, snap>>

\* the goroutine's p.close(v)
taskClose(i) ==
    /\ tasks[i].st = "ready"
    /\ tasks' = [tasks EXCEPT ![i].st = "closed"]
    /\ UNCHANGED <<config, c, closed, wg, pc, ret, arg, held, handle, nextId, made, log, snap>>

\* (mutant) the goroutine ends without p.wg.Done()
taskDoneMissing(i) ==
    /\ tasks[i].st = "closed"
    /\ tasks' = [tasks EXCEPT ![i].st = "done"]
    /\ UNCHANGED <<config, c, closed, wg, pc, ret, arg, held, handle, nextId, made, log, snap>>

\* the goroutine's deferred p.wg.Done()
taskDone(i) ==
    /\ tasks[i].st = "closed"
    /\ tasks' = [tasks EXCEPT ![i].st = "done"]
    /\ wg' = wg - 1
    /\ UNCHANGED <<config, c, closed, pc, ret, arg, held, handle, nextId, made, log, snap>>

\* ---- Get ----
Get(p) ==
    /\ pc[p] = "idle"
    /\ MayCall
    /\ IF RecvReady(c, closed)
       THEN LET v == RecvValue(c) IN
            /\ c' = RecvRest(c)
            /\ held' = [held EXCEPT ![p] = @ \cup ({v} \ {Zero})]
            /\ log' = Append(log, Ev("Get", v, IF Len(c) > 0 THEN "store" ELSE "closed"))
            /\ UNCHANGED <<nextId, made>>
       ELSE LET v == maybeNew(nextId) IN
            /\ held' = [held EXCEPT ![p] = @ \cup ({v} \ {Zero})]
            /\ nextId' = IF hasNew THEN nextId + 1 ELSE nextId
            /\ made' = IF hasNew THEN made \cup {nextId} ELSE made
            /\ log' = Append(log, Ev("Get", v, IF hasNew THEN "new" ELSE "zero"))
            /\ UNCHANGED c
    /\ UNCHANGED <<config, closed, wg, tasks, pc, ret, arg, handle, snap>>

\* ---- Put ----
\* v is an instance the caller holds, or one it made itself (nextId)
Put(p, v) ==
    /\ pc[p] = "idle"
    /\ MayCall
    /\ v \in held[p] \cup {nextId}
    /\ nextId' = IF v = nextId THEN nextId + 1 ELSE nextId
    /\ IF closed
       THEN \* send on closed channel: run-time panic
            /\ log' = Append(log, Ev("Put", v, "panic"))
            /\ UNCHANGED <<c, pc, ret, arg, held>>
       ELSE IF SendReady(c, cap)
       THEN /\ c' = Append(c, v)
            /\ held' = [held EXCEPT ![p] = @ \ {v}]
            /\ log' = Append(log, Ev("Put", v, "stored"))
            /\ UNCHANGED <<pc, ret, arg>>
       ELSE /\ maybeClose(p, v, "idle")
            /\ held' = [held EXCEPT ![p] = @ \ {v}]
            /\ log' = Append(log, Ev("Put", v, "discard"))
            /\ UNCHANGED c
    /\ UNCHANGED <<config, closed, wg, tasks, handle, made, snap>>

\* (mutant) Close ranges over p.c without closing it
CloseNoMark(p) ==
    /\ pc[p] = "idle"
    /\ MayCall
    /\ pc' = [pc EXCEPT ![p] = "drain"]
    /\ log' = Append(log, Ev("Close", Zero, "ok"))
    /\ snap' = <<[store |-> c,
                  pending |-> {arg[q] : q \in {r \in Callers : pc[r] \in {"add", "go"}}}]>>
    /\ UNCHANGED <<config, c, closed, wg, tasks, ret, arg, held, handle, nextId, made>>

\* ---- Close ----
\* close(p.c)
Close(p) ==
    /\ pc[p] = "idle"
    /\ MayCall
    /\ IF closed
       THEN \* close of closed channel: run-time panic
            /\ log' = Append(log, Ev("Close", Zero, "panic"))
            /\ UNCHANGED <<closed, pc, snap>>
       ELSE /\ closed' = TRUE
            /\ pc' = [pc EXCEPT ![p] = "drain"]
            /\ log' = Append(log, Ev("Close", Zero, "ok"))
            /\ snap' = <<[store |-> c,
                          pending |-> {arg[q] : q \in {r \in Callers : pc[r] \in {"add", "go"}}}]>>
    /\ UNCHANGED <<config, c, wg, tasks, ret, arg, held, handle, nextId, made>>

\* (mutant) Close returns &p.wg without ranging over p.c
closeRangeNoDrain(p) ==
    /\ pc[p] = "drain"
    /\ pc' = [pc EXCEPT ![p] = "idle"]
    /\ handle' = [handle EXCEPT ![p] = TRUE]
    /\ log' = Append(log, Ev("CloseRet", Zero, "ok"))
    /\ UNCHANGED <<config, c, closed, wg, tasks, ret, arg, held, nextId, made, snap>>

\* (mutant) the range drops the instances without maybeClose
closeRangeDrops(p) ==
    /\ pc[p] = "drain"
    /\ RecvReady(c, closed)
    /\ IF Len(c) > 0
       THEN /\ c' = RecvRest(c)
            /\ UNCHANGED <<pc, ret, arg, handle, log>>
       ELSE /\ pc' = [pc EXCEPT ![p] = "idle"]
            /\ handle' = [handle EXCEPT ![p] = TRUE]
            /\ log' = Append(log, Ev("CloseRet", Zero, "ok"))
            /\ UNCHANGED <<c, ret, arg>>
    /\ UNCHANGED <<config, closed, wg, tasks, held, nextId, made, snap>>

\* one turn of `for v := range p.c`, and `return &p.wg` when the range ends
closeRange(p) ==
    /\ pc[p] = "drain"
    /\ RecvReady(c, closed)
    /\ IF Len(c) > 0
       THEN /\ c' = RecvRest(c)
            /\ maybeClose(p, RecvValue(c), "drain")
            /\ UNCHANGED <<handle, log>>
       ELSE /\ pc' = [pc EXCEPT ![p] = "idle"]
            /\ handle' = [handle EXCEPT ![p] = TRUE]
            /\ log' = Append(log, Ev("CloseRet", Zero, "ok"))
            /\ UNCHANGED <<c, ret, arg>>
    /\ UNCHANGED <<config, closed, wg, tasks, held, nextId, made, snap>>

\* ---- Wait on the handle Close returned ----
Wait(p) ==
    /\ pc[p] = "idle"
    /\ MayCall
    /\ handle[p]
    /\ pc' = [pc EXCEPT ![p] = "wait"]
    /\ log' = Append(log, Ev("Wait", Zero, "ok"))
    /\ UNCHANGED <<config, c, closed, wg, tasks, ret, arg, held, handle, nextId, made, snap>>

\* sync.WaitGroup.Wait returns when the counter is zero
waitReturn(p) ==
    /\ pc[p] = "wait"
    /\ wg = 0
    /\ pc' = [pc EXCEPT ![p] = "idle"]
    /\ log' = Append(log, Ev("WaitRet", Zero, "ok"))
    /\ UNCHANGED <<config, c, closed, wg, tasks, ret, arg, held, handle, nextId, made, snap>>

Next ==
    \/ \E p \in Callers : Get(p)
    \/ \E p \in Callers : \E v \in 1..nextId : Put(p, v)
    \/ \E p \in Callers : Close(p)
    \/ \E p \in Callers : closeRange(p)
    \/ \E p \in Callers : wgAdd(p)
    \/ \E p \in Callers : goFunc(p)
    \/ \E p \in Callers : Wait(p)
    \/ \E p \in Callers : waitReturn(p)
    \/ \E i \in 1..Len(tasks) : taskClose(i)
    \/ \E i \in 1..Len(tasks) : taskDone(i)

\* the callers, as far as the variables of xvars go
XInit ==
    /\ limit = MaxCalls
    /\ crashed = FALSE
    /\ dirty = {}
    /\ resets = <<>>
    /\ pending = [p \in Callers |-> Zero]

PoolInit == Init /\ XInit

\* the steps of Next, for those callers
PoolNext ==
    \/ \E p \in Callers : Get(p) /\ UNCHANGED xvars
    \/ \E p \in Callers : \E v \in 1..nextId : Put(p, v) /\ UNCHANGED xvars
    \/ \E p \in Callers : Close(p) /\ UNCHANGED xvars
    \/ \E p \in Callers : closeRange(p) /\ UNCHANGED xvars
    \/ \E p \in Callers : wgAdd(p) /\ UNCHANGED xvars
    \/ \E p \in Callers : goFunc(p) /\ UNCHANGED xvars
    \/ \E p \in Callers : Wait(p) /\ UNCHANGED xvars
    \/ \E p \in Callers : waitReturn(p) /\ UNCHANGED xvars
    \/ \E i \in 1..Len(tasks) : taskClose(i) /\ UNCHANGED xvars
    \/ \E i \in 1..Len(tasks) : taskDone(i) /\ UNCHANGED xvars

Spec == PoolInit /\ [][PoolNext]_allvars


\* ---- reading the log and the tasks ----
Last(s) == s[Len(s)]
Min(a, b) == IF a < b THEN a ELSE b
Idx == 1..Len(log)
PutIdx == {i \in Idx : log[i].op = "Put"}
GetIdx == {i \in Idx : log[i].op = "Get"}
AllIdle == \A p \in Callers : pc[p] = "idle"

\* the number of times the destructor has been invoked on instance v
Destroyed(v) == Cardinality({i \in 1..Len(tasks) : tasks[i].v = v /\ tasks[i].st # "ready"})

\* the number of goroutines started for instance v
Scheduled(v) == Cardinality({i \in 1..Len(tasks) : tasks[i].v = v})

InStore(v) == \E k \in 1..Len(c) : c[k] = v

\* ---- C1 ----
\* C1: in every reachable state the store holds between 0 and cap instances,
\* and a Put that finds the store full is not made to wait (the call is
\* enabled) and takes the discard branch in that very step: the store is
\* left as it was and the caller is in maybeClose(v), or back from it when
\* there is no destructor.
C1_Bounded == Len(c) >= 0 /\ Len(c) <= cap

C1_FullPutNotBlocked ==
    \A p \in Callers :
        (pc[p] = "idle" /\ MayCall /\ ~closed /\ Len(c) = cap) => ENABLED Put(p, nextId)

C1_FullPutDiscards ==
    \A p \in Callers : \A v \in 1..nextId :
        (Put(p, v) /\ ~closed /\ Len(c) = cap) =>
            /\ c' = c
            /\ Last(log') = Ev("Put", v, "discard")
            /\ IF hasClose THEN pc'[p] = "add" /\ arg'[p] = v ELSE pc'[p] = "idle"

C2_Case ==
    /\ \A i \in Idx : log[i].op \in {"Put", "Get"}
    /\ \A i \in PutIdx : \A j \in GetIdx : i < j
    /\ Cardinality(GetIdx) <= Min(Cardinality(PutIdx), cap)

C2_PutsThenGets ==
    C2_Case =>
        /\ Len(c) = Min(Cardinality(PutIdx), cap) - Cardinality(GetIdx)
        /\ \A j \in GetIdx :
              /\ log[j].how = "store"
              /\ \E i \in PutIdx : log[i].v = log[j].v
              /\ ~InStore(log[j].v)
              /\ \A k \in GetIdx : k # j => log[k].v # log[j].v
        /\ made = {}

\* three Puts into a pool of capacity two, then two Gets
C2_Witness ==
    /\ C2_Case /\ cap = 2
    /\ Cardinality(PutIdx) = 3 /\ Cardinality(GetIdx) = 2

\* ---- C4 ----
\* C4: on a pool with a destructor, when the calls so far are N Puts and all
\* of them have returned, the store holds the first min(N, cap) instances
\* put, one goroutine has been started for each later one and for nothing
\* else, no two goroutines for the same instance, and none for a stored one.
C4_Case ==
    /\ hasClose
    /\ \A i \in Idx : log[i].op = "Put"
    /\ AllIdle

C4_Overflow ==
    C4_Case =>
        /\ c = [i \in 1..Min(Len(log), cap) |-> log[i].v]
        /\ Len(tasks) = Len(log) - Min(Len(log), cap)
        /\ \A i \in Idx : i > cap => Scheduled(log[i].v) = 1
        /\ \A i \in Idx : i <= cap => Scheduled(log[i].v) = 0
        /\ \A i \in Idx : \A j \in Idx : i # j => log[i].v # log[j].v

\* capacity one, three Puts: two instances overflowed
C4_Witness ==
    /\ C4_Case /\ cap = 1 /\ Len(log) = 3 /\ Len(tasks) = 2


\* ---- C3 ----
\* C3: a Get that finds no instance in the store invokes the constructor
\* exactly once and returns what it made when there is a constructor, and
\* returns the zero value, invoking nothing, when there is none.
C3_GetOnEmpty ==
    \A p \in Callers :
        (Get(p) /\ Len(c) = 0) =>
            IF hasNew
            THEN /\ nextId \notin made
                 /\ made' = made \cup {nextId}
                 /\ nextId' = nextId + 1
                 /\ Last(log').v = nextId
                 /\ nextId \in held'[p]
            ELSE /\ made' = made
                 /\ nextId' = nextId
                 /\ Last(log').v = Zero

C3_EmptyGetConstructs == [][C3_GetOnEmpty]_vars


\* ---- C5 ----
\* the call of Close that closed the channel, and what it found
CloseIdx == {i \in Idx : log[i].op = "Close" /\ log[i].how = "ok"}
WaitReturned == \E i \in Idx : log[i].op = "WaitRet"
StoreAtClose == {snap[1].store[k] : k \in 1..Len(snap[1].store)}

\* the instances a Get took from the store after close(p.c)
TakenAfterClose ==
    {log[j].v : j \in {k \in GetIdx : log[k].how = "store" /\ \E i \in CloseIdx : i < k}}

\* the instances that overflowed on a Put that had returned before close(p.c)
OverflowedEarlier ==
    {log[j].v : j \in {k \in PutIdx : log[k].how = "discard" /\ \E i \in CloseIdx : k < i}}
        \ snap[1].pending

C5_NoneTwice == \A v \in 1..nextId : Destroyed(v) <= 1

\* C5 as stated: once a Wait on Close's handle has returned, the store is
\* empty and the destructor, when there is one, has been invoked exactly
\* once on every instance that was in the store when Close closed it and on
\* every instance that overflowed on an earlier Put, and on none twice.
C5_Original ==
    WaitReturned =>
        /\ c = <<>>
        /\ C5_NoneTwice
        /\ \A v \in StoreAtClose \cup OverflowedEarlier :
              Destroyed(v) = IF hasClose THEN 1 ELSE 0

\* C5 (amended): the same, for the instances that were in the store when Close
\* closed it and that no Get took from it before the drain reached them.
C5_CloseWaitDestroysAll ==
    WaitReturned =>
        /\ c = <<>>
        /\ C5_NoneTwice
        /\ \A v \in (StoreAtClose \ TakenAfterClose) \cup OverflowedEarlier :
              Destroyed(v) = IF hasClose THEN 1 ELSE 0

\* Wait has returned on a pool with a destructor after an overflow and a
\* drain of a non-empty store
C5_Witness ==
    /\ WaitReturned /\ hasClose
    /\ StoreAtClose \ TakenAfterClose # {}
    /\ OverflowedEarlier # {}

\* ---- C6 ----
\* C6: when a Wait on Close's handle returns, every goroutine maybeClose has
\* started has run its destructor to the end and called Done, and no caller
\* is between p.wg.Add(1) and the go statement.
C6_AtWaitReturn ==
    \A p \in Callers :
        waitReturn(p) =>
            /\ \A i \in 1..Len(tasks) : tasks[i].st = "done"
            /\ \A q \in Callers : pc[q] # "go"

C6_WaitCoversScheduled == [][C6_AtWaitReturn]_vars

\* a Wait has returned after an overflow and a drain started goroutines
C6_Witness ==
    /\ log # <<>> /\ Last(log).op = "WaitRet"
    /\ OverflowedEarlier # {} /\ StoreAtClose # {}
    /\ Len(tasks) >= 2

\* ---- C7 ----
\* C7: no call of Get, Put or Close ends in a panic.
C7_NoPanic == \A i \in Idx : log[i].how # "panic"

\* ---- C8 ----
\* C8: once the channel is closed the store never grows, and from the return
\* of Close on it is empty.
CloseReturned == \E i \in Idx : log[i].op = "CloseRet"

C8_Drained == CloseReturned => c = <<>>

C8_NoInsert == closed => Len(c') <= Len(c) /\ closed'

C8_ClosedStoreStaysEmpty == []C8_Drained /\ [][C8_NoInsert]_vars

\* Close drained a non-empty store and returned, and a Put and a Get followed
C8_Witness ==
    /\ CloseReturned /\ snap[1].store # <<>> /\ c = <<>>
    /\ \E i \in Idx : \E j \in PutIdx : \E k \in GetIdx :
          log[i].op = "CloseRet" /\ i < j /\ i < k

\* ---- C9 ----
\* the steps a caller has left in its call, at most
DrainCost == 3 * Len(c) + 1
After(p) == IF ret[p] = "drain" THEN DrainCost ELSE 0
Remaining(p) ==
    CASE pc[p] = "add" -> 2 + After(p)
      [] pc[p] = "go" -> 1 + After(p)
      [] pc[p] = "drain" -> DrainCost
      [] OTHER -> 0

OwnStep(p) == wgAdd(p) \/ goFunc(p) \/ closeRange(p)

\* C9: a caller inside Get, Put or Close can always take its next step,
\* whatever state the destruction goroutines are in, and a call can always
\* be begun; only a caller in Wait has no step while the counter is not zero.
C9_NeverBlocked ==
    \A p \in Callers :
        /\ pc[p] \in {"add", "go", "drain"} => ENABLED OwnStep(p)
        /\ (pc[p] = "idle" /\ MayCall) =>
              ENABLED Get(p) /\ ENABLED Put(p, nextId) /\ ENABLED Close(p)
        /\ (pc[p] = "wait" /\ wg > 0) => ~ENABLED waitReturn(p)
        /\ Remaining(p) <= 3 * cap + 3

\* and the steps it has left go down with each of its own steps and never up
\* with a step of another caller or of a goroutine.
C9_Progress ==
    \A p \in Callers :
        /\ Get(p) => pc'[p] = "idle"
        /\ (\E v \in 1..nextId : Put(p, v)) => Remaining(p)' <= 2
        /\ pc[p] \in {"add", "go", "drain"} =>
              /\ Remaining(p)' <= Remaining(p)
              /\ OwnStep(p) => Remaining(p)' < Remaining(p)

C9_OnlyWaitBlocks == []C9_NeverBlocked /\ [][C9_Progress]_vars

\* Close has returned while none of the goroutines started by an overflowing
\* Put and by the drain has run its destructor
C9_Witness ==
    /\ CloseReturned /\ AllIdle
    /\ OverflowedEarlier # {} /\ StoreAtClose # {}
    /\ Len(tasks) >= 2
    /\ \A i \in 1..Len(tasks) : tasks[i].st = "ready"

\* ---- C10 ----
\* C10: on a pool of capacity zero that has not been closed, the store is
\* empty, every Get so far took the fallback branch (a newly constructed
\* instance, never one that was put, or the zero value when there is no
\* constructor), every Put so far discarded its instance, and with a
\* destructor each discarded instance is in maybeClose or has its goroutine.
C10_ZeroCapacity ==
    (cap = 0 /\ ~closed) =>
        /\ c = <<>>
        /\ \A j \in GetIdx :
              /\ log[j].how = IF hasNew THEN "new" ELSE "zero"
              /\ IF hasNew THEN log[j].v \in made ELSE log[j].v = Zero
              /\ \A i \in PutIdx : i < j => log[i].v # log[j].v
        /\ \A i \in PutIdx :
              /\ log[i].how = "discard"
              /\ IF hasClose
                 THEN Scheduled(log[i].v)
                        + Cardinality({p \in Callers : pc[p] \in {"add", "go"} /\ arg[p] = log[i].v}) = 1
                 ELSE Scheduled(log[i].v) = 0

\* capacity zero: a Put was discarded to the destructor, then a Get constructed
C10_Witness ==
    /\ cap = 0 /\ ~closed /\ hasClose /\ hasNew
    /\ Len(tasks) >= 1
    /\ \E i \in PutIdx : \E j \in GetIdx : i < j


\* ---- C11 ----
InMaybeClose(v) == Cardinality({p \in Callers : pc[p] \in {"add", "go"} /\ arg[p] = v})

\* C11: without a destructor no goroutine is ever started, the WaitGroup's
\* counter stays zero, no caller is ever at p.wg.Add(1) or at the go
\* statement, and a caller in Wait can return at once;
C11_NoTask ==
    ~hasClose =>
        /\ tasks = <<>>
        /\ wg = 0
        /\ \A p \in Callers :
              /\ pc[p] \notin {"add", "go"}
              /\ pc[p] = "wait" => ENABLED waitReturn(p)

\* an overflowing Put leaves the store as it was and returns in that step,
\* and a turn of the drain only takes the instance out of the store.
C11_DiscardFrame ==
    ~hasClose =>
        \A p \in Callers :
            /\ \A v \in 1..nextId :
                  (Put(p, v) /\ ~closed /\ ~SendReady(c, cap)) =>
                      c' = c /\ pc'[p] = "idle" /\ wg' = wg /\ tasks' = tasks
            /\ (closeRange(p) /\ Len(c) > 0) =>
                      c' = Tail(c) /\ pc'[p] = "drain" /\ wg' = wg /\ tasks' = tasks

C11_NoDestructorNoEffect == []C11_NoTask /\ [][C11_DiscardFrame]_vars

\* no destructor: a Put overflowed, Close drained a non-empty store, and a
\* Wait on its handle has returned
C11_Witness ==
    /\ ~hasClose /\ WaitReturned
    /\ StoreAtClose # {}
    /\ \E i \in PutIdx : log[i].how = "discard"

\* ---- C16 ----
\* the places instance v is in: the store, a caller's hands, a maybeClose
\* under way, a destruction goroutine
InStoreCount(v) == Cardinality({k \in 1..Len(c) : c[k] = v})
Holders(v) == Cardinality({p \in Callers : v \in held[p]})
Places(v) == InStoreCount(v) + Holders(v) + InMaybeClose(v) + Scheduled(v)

Accepted == {log[i].v : i \in {k \in PutIdx : log[k].how # "panic"}}

\* C16: every instance a Put accepted is in exactly one place when there is a
\* destructor, and in at most one (dropped instances are nowhere) when there
\* is none; and between two Gets that returned the same instance from the
\* store there is a Put that stored it.
C16_OnePlace ==
    /\ \A v \in Accepted : IF hasClose THEN Places(v) = 1 ELSE Places(v) <= 1
    /\ \A i \in GetIdx : \A j \in GetIdx :
          (i < j /\ log[i].how = "store" /\ log[j].how = "store" /\ log[i].v = log[j].v) =>
              \E k \in PutIdx : i < k /\ k < j /\ log[k].v = log[i].v /\ log[k].how = "stored"

\* a Get took one stored instance while Close was draining, and the drain
\* gave another one to a destruction goroutine
C16_Witness ==
    /\ hasClose /\ CloseReturned
    /\ TakenAfterClose # {}
    /\ \E v \in StoreAtClose \ TakenAfterClose : Scheduled(v) = 1
    /\ \E p \in Callers : held[p] \cap TakenAfterClose # {}

\* ---- C18 ----
NotDone == {i \in 1..Len(tasks) : tasks[i].st # "done"}
AtGo == {p \in Callers : pc[p] = "go"}

\* C18: the WaitGroup's counter is never negative and equals the number of
\* destruction goroutines that have not called Done plus the number of
\* callers between p.wg.Add(1) and the go statement;
C18_Counter == wg >= 0 /\ wg = Cardinality(NotDone) + Cardinality(AtGo)

\* only p.wg.Add(1), made by the caller before the goroutine exists, and the
\* Done of a goroutine whose destructor has returned change it, by one, and
\* a goroutine that has called Done takes no further step.
C18_CounterSteps ==
    /\ \A p \in Callers : wgAdd(p) => wg' = wg + 1 /\ tasks' = tasks /\ pc'[p] = "go"
    /\ \A i \in 1..Len(tasks) : taskDone(i) => tasks[i].st = "closed" /\ wg' = wg - 1
    /\ wg' # wg => (\E p \in Callers : wgAdd(p)) \/ (\E i \in 1..Len(tasks) : taskDone(i))
    /\ \A i \in 1..Len(tasks) : tasks[i].st = "done" => tasks'[i].st = "done"

C18_WaitGroupCounts == []C18_Counter /\ [][C18_CounterSteps]_vars

\* a caller is between Add and go, one goroutine has run its destructor and
\* not yet called Done, and another has called Done
C18_Witness ==
    /\ AtGo # {}
    /\ \E i \in 1..Len(tasks) : tasks[i].st = "closed"
    /\ \E i \in 1..Len(tasks) : tasks[i].st = "done"
    /\ wg = 2


\* ---- C17 ----
\* a step of some destruction goroutine
taskStep == \E i \in 1..Len(tasks) : taskClose(i) \/ taskDone(i)

\* The Go scheduler runs every goroutine that can take a step: a caller
\* inside maybeClose or the drain, a caller whose Wait can return, and the
\* destruction goroutines, whose destructor returns.
Fairness ==
    /\ \A p \in Callers : WF_vars(OwnStep(p)) /\ WF_vars(waitReturn(p))
    /\ WF_vars(taskStep)

FairSpec == Spec /\ Fairness

\* C17: under that fairness a caller in Close's drain gets back from Close,
\* and a caller in Wait gets back from Wait.
C17_CloseAndWaitReturn ==
    \A p \in Callers :
        /\ (pc[p] = "drain") ~> (pc[p] = "idle" /\ handle[p])
        /\ (pc[p] = "wait") ~> (pc[p] = "idle")

\* a Wait has returned after Close drained a non-empty store into goroutines
\* while a Get was made during the drain
C17_Witness ==
    /\ hasClose /\ WaitReturned
    /\ StoreAtClose # {}
    /\ Len(tasks) >= 1
    /\ \E i \in CloseIdx : \E j \in GetIdx : \E k \in Idx :
          i < j /\ j < k /\ log[k].op = "CloseRet"


\* ---- resetPool (NewResetterPool) ----
\* the variables of vars that are the pool's, not the callers'
poolState == <<config, c, closed, wg, tasks, pc, ret, arg, handle, made, log, snap>>

NumPending == Cardinality({p \in Callers : pending[p] # Zero})

\* a call may be begun: the calls made and the Puts under way are below limit
ResetMayCall == CountCalls(log) + NumPending < limit

\* (mutant) Reset() leaves the content as it is
ResetContentNoop(d, v) == d

\* v.Reset(): the content of v is the reset state
ResetContent(d, v) == d \ {v}

\* NewResetterPool(size, opt): a resetPool around NewPool(size, opt)
NewResetterPool ==
    /\ Init
    /\ limit = ResetCalls
    /\ crashed = FALSE
    /\ dirty = {}
    /\ resets = <<>>
    /\ pending = [p \in Callers |-> Zero]

\* a caller writes into an instance it holds (b.WriteString("hello"))
Mutate(p, v) ==
    /\ pc[p] = "idle"
    /\ pending[p] = Zero
    /\ v \in held[p] \ dirty
    /\ dirty' = dirty \cup {v}
    /\ UNCHANGED <<vars, limit, crashed, resets, pending>>

\* (mutant) resetPool.Put passes v on without v.Reset()
resetPoolPutNoReset(p, v) ==
    /\ pc[p] = "idle"
    /\ pending[p] = Zero
    /\ ResetMayCall
    /\ v \in held[p] \cup {nextId}
    /\ dirty' = dirty \cup ({v} \cap {nextId})
    /\ pending' = [pending EXCEPT ![p] = v]
    /\ held' = [held EXCEPT ![p] = @ \cup {v}]
    /\ nextId' = IF v = nextId THEN nextId + 1 ELSE nextId
    /\ UNCHANGED <<poolState, limit, crashed, resets>>

\* resetPool.Put(v), first statement: v.Reset().  v is an instance the caller
\* holds, or one it made itself (nextId), which has content.
resetPoolPut(p, v) ==
    /\ pc[p] = "idle"
    /\ pending[p] = Zero
    /\ ResetMayCall
    /\ v \in held[p] \cup {nextId}
    /\ resets' = Append(resets, [v |-> v, dirty |-> v \in dirty \/ v = nextId])
    /\ dirty' = ResetContent(dirty \cup ({v} \cap {nextId}), v)
    /\ pending' = [pending EXCEPT ![p] = v]
    /\ held' = [held EXCEPT ![p] = @ \cup {v}]
    /\ nextId' = IF v = nextId THEN nextId + 1 ELSE nextId
    /\ UNCHANGED <<poolState, limit, crashed>>

\* resetPool.Put(v), second statement: p.Pool.Put(v)
resetPoolDelegate(p) ==
    /\ pending[p] # Zero
    /\ Put(p, pending[p])
    /\ pending' = [pending EXCEPT ![p] = Zero]
    /\ UNCHANGED <<limit, crashed, dirty, resets>>

\* (mutant) resetPool has a Get of its own that never looks into the store
resetPoolGetOwn(p) ==
    /\ pc[p] = "idle"
    /\ pending[p] = Zero
    /\ ResetMayCall
    /\ held' = [held EXCEPT ![p] = @ \cup ({maybeNew(nextId)} \ {Zero})]
    /\ nextId' = IF hasNew THEN nextId + 1 ELSE nextId
    /\ made' = IF hasNew THEN made \cup {nextId} ELSE made
    /\ log' = Append(log, Ev("Get", maybeNew(nextId), IF hasNew THEN "new" ELSE "zero"))
    /\ UNCHANGED <<config, c, closed, wg, tasks, pc, ret, arg, handle, snap, xvars>>

\* resetPool.Get and resetPool.Close are Pool[T]'s, promoted by the embedding
resetPoolGet(p) ==
    /\ pending[p] = Zero
    /\ ResetMayCall
    /\ Get(p)
    /\ UNCHANGED xvars

resetPoolClose(p) ==
    /\ pending[p] = Zero
    /\ ResetMayCall
    /\ Close(p)
    /\ UNCHANGED xvars

resetPoolWait(p) ==
    /\ pending[p] = Zero
    /\ ResetMayCall
    /\ Wait(p)
    /\ UNCHANGED xvars

ResetNext ==
    \/ \E p \in Callers : resetPoolGet(p)
    \/ \E p \in Callers : \E v \in 1..nextId : resetPoolPut(p, v)
    \/ \E p \in Callers : resetPoolDelegate(p)
    \/ \E p \in Callers : resetPoolClose(p)
    \/ \E p \in Callers : resetPoolWait(p)
    \/ \E p \in Callers : \E v \in 1..nextId : Mutate(p, v)
    \/ \E p \in Callers : closeRange(p) /\ UNCHANGED xvars
    \/ \E p \in Callers : wgAdd(p) /\ UNCHANGED xvars
    \/ \E p \in Callers : goFunc(p) /\ UNCHANGED xvars
    \/ \E p \in Callers : waitReturn(p) /\ UNCHANGED xvars
    \/ \E i \in 1..Len(tasks) : taskClose(i) /\ UNCHANGED xvars
    \/ \E i \in 1..Len(tasks) : taskDone(i) /\ UNCHANGED xvars

ResetSpec == NewResetterPool /\ [][ResetNext]_allvars


\* ---- C12 ----
ResetCount(v) == Cardinality({i \in 1..Len(resets) : resets[i].v = v})
PutCount(v) == Cardinality({i \in PutIdx : log[i].v = v})
PendingCount(v) == Cardinality({p \in Callers : pending[p] = v})

C12_Once == \A v \in 1..nextId : ResetCount(v) = PutCount(v) + PendingCount(v)

\* a Reset is a step of an idle caller that leaves the pool alone, and the
\* step in which the pool stores or discards v is taken by the caller whose
\* Put has just reset v
C12_PutStep ==
    /\ resets' # resets =>
           /\ UNCHANGED poolState
           /\ \E p \in Callers : /\ pc[p] = "idle"
                                 /\ pending[p] = Zero
                                 /\ pending'[p] = Last(resets').v
    /\ (Len(log') > Len(log) /\ Last(log').op = "Put") =>
           /\ resets' = resets
           /\ \E p \in Callers : /\ pending[p] = Last(log').v
                                 /\ pending'[p] = Zero
                                 /\ ResetCount(pending[p]) = PutCount(pending[p]) + 1

C12_DestructorStep ==
    \A i \in 1..Len(tasks) :
        (tasks[i].st = "ready" /\ tasks'[i].st = "closed") =>
            /\ ResetCount(tasks[i].v) >= 1
            /\ PendingCount(tasks[i].v) = 0

\* C12: in a resetting pool every instance has been reset exactly as many
\* times as it has been Put (counting a Put that is between its two
\* statements), the Reset is a step of the calling caller that comes before
\* the step that stores or discards the instance, and whenever the destructor
\* is invoked on an instance that instance has been reset before.
C12_ResetOncePerPut == []C12_Once /\ [][C12_PutStep /\ C12_DestructorStep]_allvars

\* an overflowing Put whose instance was reset once and then destroyed, next
\* to a stored instance that was reset once
C12_Witness ==
    /\ \E i \in PutIdx : /\ log[i].how = "discard"
                         /\ Destroyed(log[i].v) = 1
                         /\ ResetCount(log[i].v) = 1
    /\ \E v \in 1..nextId : InStore(v) /\ ResetCount(v) = 1

\* ---- C13 ----
C13_StoreClean == \A k \in 1..Len(c) : c[k] \notin dirty

C13_GetStep ==
    (Len(log') > Len(log) /\ Last(log').op = "Get" /\ Last(log').how = "store") =>
        /\ Last(log').v \notin dirty
        /\ Last(log').v \notin dirty'

\* C13: in a resetting pool no instance in the store has content, and a Get
\* that takes an instance from the store returns it without content.
C13_ResetProperty == []C13_StoreClean /\ [][C13_GetStep]_allvars

\* an instance the pool constructed was written to, Put (reset while it had
\* content), stored, and returned by a later Get from the store
C13_Witness ==
    \E i \in GetIdx : \E j \in PutIdx : \E k \in GetIdx :
        /\ i < j /\ j < k
        /\ log[i].how = "new" /\ log[j].how = "stored" /\ log[k].how = "store"
        /\ log[i].v = log[j].v /\ log[j].v = log[k].v
        /\ \E r \in 1..Len(resets) : resets[r].v = log[i].v /\ resets[r].dirty
        /\ log[i].v \notin dirty

\* ---- C19 ----
\* every step of the resetting pool is a step of the plain pool on the same
\* state, or leaves the pool's state alone
C19_Step == Next \/ UNCHANGED poolState

\* the resetting pool refuses no call the plain pool would take
C19_Enabled ==
    \A p \in Callers :
        /\ (pending[p] = Zero /\ ResetMayCall) =>
               /\ (ENABLED Get(p)) => ENABLED resetPoolGet(p)
               /\ (ENABLED Close(p)) => ENABLED resetPoolClose(p)
        /\ pending[p] # Zero => ENABLED resetPoolDelegate(p)

\* C19: a resetting pool moves the store, the tasks, the counter and the
\* values Get returns exactly as the plain pool does on the same calls: each
\* of its steps is a step of the plain pool or leaves the pool's state alone,
\* and it takes every Get, Close and delegated Put the plain pool would take.
C19_SameAsPool == []C19_Enabled /\ [][C19_Step]_allvars

\* after two Puts (one stored, one discarded), a Get from the store and Close
C19_Witness ==
    /\ closed
    /\ Len(tasks) >= 1
    /\ Len(resets) = 2
    /\ \E k \in GetIdx : log[k].how = "store"


\* ---- TestPool: one caller runs the scenario ----
Runner == CHOOSE p \in Callers : \A q \in Callers : p <= q

\* the calls begun so far; up to Close the k-th call is log[k]
Calls == CountCalls(log)

\* the Runner Put the instances of the last Gets back before Close, as the
\* deferred Puts of "get from pool" do
RePut == Calls > 5 * cap /\ log[5 * cap + 1].op = "Put"

\* NewPool(size, Options{NewFunc, CloseFunc}), and calls enough for the scenario
ScenarioInit ==
    /\ Init
    /\ hasNew /\ hasClose
    /\ limit = 6 * cap + 2
    /\ crashed = FALSE
    /\ dirty = {}
    /\ resets = <<>>
    /\ pending = [p \in Callers |-> Zero]

\* "newFunc executions": checks[i] = p.Get(), 2C times
ScenarioGetNew ==
    /\ Calls < 2 * cap
    /\ Get(Runner)
    /\ UNCHANGED xvars

\* "overflow pool": p.Put(checks[i]), 2C times
ScenarioPut ==
    /\ 2 * cap <= Calls /\ Calls < 4 * cap
    /\ Put(Runner, log[Calls - 2 * cap + 1].v)
    /\ UNCHANGED xvars

\* "get from pool": v := p.Get(), C times
ScenarioGet ==
    /\ 4 * cap <= Calls /\ Calls < 5 * cap
    /\ Get(Runner)
    /\ UNCHANGED xvars

\* the deferred p.Put(v) of "get from pool", last Get first
ScenarioDeferredPut ==
    /\ 5 * cap <= Calls /\ Calls < 6 * cap
    /\ Calls > 5 * cap => RePut
    /\ Put(Runner, log[10 * cap - Calls].v)
    /\ UNCHANGED xvars

\* "close pool": p.Close(), right after the Gets or after the deferred Puts
ScenarioClose ==
    /\ Calls = 5 * cap \/ (Calls = 6 * cap /\ RePut)
    /\ Close(Runner)
    /\ UNCHANGED xvars

\* .Wait() on what Close returned
ScenarioWait ==
    /\ \A i \in Idx : log[i].op # "Wait"
    /\ Wait(Runner)
    /\ UNCHANGED xvars

ScenarioNext ==
    \/ ScenarioGetNew
    \/ ScenarioPut
    \/ ScenarioGet
    \/ ScenarioDeferredPut
    \/ ScenarioClose
    \/ ScenarioWait
    \/ closeRange(Runner) /\ UNCHANGED xvars
    \/ wgAdd(Runner) /\ UNCHANGED xvars
    \/ goFunc(Runner) /\ UNCHANGED xvars
    \/ waitReturn(Runner) /\ UNCHANGED xvars
    \/ \E i \in 1..Len(tasks) : taskClose(i) /\ UNCHANGED xvars
    \/ \E i \in 1..Len(tasks) : taskDone(i) /\ UNCHANGED xvars

ScenarioSpec == ScenarioInit /\ [][ScenarioNext]_allvars


\* ---- C14 ----
TotalDestroyed == Cardinality({i \in 1..Len(tasks) : tasks[i].st # "ready"})
ScenarioDone == \E i \in Idx : log[i].op = "WaitRet"
Upto(a, b) == {k \in a..b : k <= Calls}

\* the parts of the scenario before Close
C14_Gets ==
    /\ \A k \in Upto(1, 2 * cap) : log[k].op = "Get" /\ log[k].how = "new"
    /\ \A k \in Upto(1, 2 * cap) : \A j \in Upto(1, 2 * cap) :
           log[k].v = log[j].v => k = j

C14_Puts ==
    /\ \A k \in Upto(2 * cap + 1, 3 * cap) : log[k].op = "Put" /\ log[k].how = "stored"
    /\ \A k \in Upto(3 * cap + 1, 4 * cap) :
           /\ log[k].op = "Put" /\ log[k].how = "discard"
           /\ InMaybeClose(log[k].v) + Scheduled(log[k].v) = 1
           /\ (pc[Runner] = "idle" /\ Calls > k) => Scheduled(log[k].v) = 1

C14_GetsFromStore ==
    \A k \in Upto(4 * cap + 1, 5 * cap) :
        /\ log[k].op = "Get" /\ log[k].how = "store"
        /\ \E j \in 2 * cap + 1..3 * cap : log[j].v = log[k].v
        /\ ~closed => InMaybeClose(log[k].v) + Scheduled(log[k].v) = 0

\* C14 as stated: after exactly Get x 2C, Put x 2C, Get x C, Close().Wait()
\* the destructor has been invoked 2C times in all.
C14_Original ==
    /\ C14_Gets
    /\ C14_Puts
    /\ C14_GetsFromStore
    /\ (ScenarioDone /\ ~RePut) => TotalDestroyed = 2 * cap

\* C14: the 2C first Gets return distinct constructed instances; the first C
\* Puts store and the last C Puts each schedule one destruction; the next C
\* Gets return stored instances nothing has been destroyed of; Close().Wait()
\* destroys what is in the store at Close: nothing when the C instances are
\* still held (C destructions in all), the C instances when they were Put
\* back first (2C in all, each of the 2C instances once).
C14_Scenario ==
    /\ C14_Gets
    /\ C14_Puts
    /\ C14_GetsFromStore
    /\ (ScenarioDone /\ ~RePut) =>
           /\ TotalDestroyed = cap
           /\ StoreAtClose = {}
           /\ \A k \in 4 * cap + 1..5 * cap : Destroyed(log[k].v) = 0
    /\ (ScenarioDone /\ RePut) =>
           /\ TotalDestroyed = 2 * cap
           /\ Cardinality(StoreAtClose) = cap
           /\ \A k \in 1..2 * cap : Destroyed(log[k].v) = 1

\* the scenario as stated is over, for the largest capacity
C14_Witness ==
    /\ ScenarioDone
    /\ ~RePut
    /\ cap = MaxCap
    /\ TotalDestroyed = cap
    /\ Cardinality(held[Runner]) = cap


\* ---- a destructor that panics ----
\* NewPool(size, Options{CloseFunc: f}) with an f that may panic
PanicInit ==
    /\ Init
    /\ hasClose
    /\ limit = PanicCalls
    /\ crashed = FALSE
    /\ dirty = {}
    /\ resets = <<>>
    /\ pending = [p \in Callers |-> Zero]

\* p.close(v) panics in the goroutine
taskPanic(i) ==
    /\ ~crashed
    /\ tasks[i].st = "ready"
    /\ tasks' = [tasks EXCEPT ![i].st = "panic"]
    /\ UNCHANGED <<config, c, closed, wg, pc, ret, arg, held, handle, nextId, made, log, snap, xvars>>

\* the panic runs the goroutine's deferred p.wg.Done()
taskPanicDone(i) ==
    /\ ~crashed
    /\ tasks[i].st = "panic"
    /\ tasks' = [tasks EXCEPT ![i].st = "unwound"]
    /\ wg' = wg - 1
    /\ UNCHANGED <<config, c, closed, pc, ret, arg, held, handle, nextId, made, log, snap, xvars>>

\* nothing in the goroutine recovers: the panic ends the program
taskFatal(i) ==
    /\ ~crashed
    /\ tasks[i].st = "unwound"
    /\ crashed' = TRUE
    /\ UNCHANGED <<vars, limit, dirty, resets, pending>>

\* the steps of the pool are steps of a program that is running
PanicNext ==
    \/ \E p \in Callers : ~crashed /\ Get(p) /\ UNCHANGED xvars
    \/ \E p \in Callers : \E v \in 1..nextId : ~crashed /\ Put(p, v) /\ UNCHANGED xvars
    \/ \E p \in Callers : ~crashed /\ Close(p) /\ UNCHANGED xvars
    \/ \E p \in Callers : ~crashed /\ closeRange(p) /\ UNCHANGED xvars
    \/ \E p \in Callers : ~crashed /\ wgAdd(p) /\ UNCHANGED xvars
    \/ \E p \in Callers : ~crashed /\ goFunc(p) /\ UNCHANGED xvars
    \/ \E p \in Callers : ~crashed /\ Wait(p) /\ UNCHANGED xvars
    \/ \E p \in Callers : ~crashed /\ waitReturn(p) /\ UNCHANGED xvars
    \/ \E i \in 1..Len(tasks) : ~crashed /\ taskClose(i) /\ UNCHANGED xvars
    \/ \E i \in 1..Len(tasks) : ~crashed /\ taskDone(i) /\ UNCHANGED xvars
    \/ \E i \in 1..Len(tasks) : taskPanic(i)
    \/ \E i \in 1..Len(tasks) : taskPanicDone(i)
    \/ \E i \in 1..Len(tasks) : taskFatal(i)

PanicSpec == PanicInit /\ [][PanicNext]_allvars

\* ---- C15 ----
Failed == \E i \in 1..Len(tasks) : tasks[i].st \in {"panic", "unwound"}

\* C15: once a destructor has panicked in its goroutine, every caller that
\* is inside Put or Close can still take its next step, and every idle caller
\* with calls left can still make a Get, and a Close on a pool that is open.
C15_OpsSurvive ==
    Failed =>
        \A p \in Callers :
            /\ pc[p] \in {"add", "go", "drain"} =>
                   ENABLED (~crashed /\ OwnStep(p) /\ UNCHANGED xvars)
            /\ (pc[p] = "idle" /\ MayCall) =>
                   /\ ENABLED (~crashed /\ Get(p) /\ UNCHANGED xvars)
                   /\ ~closed => ENABLED (~crashed /\ Close(p) /\ UNCHANGED xvars)

====
